---- MODULE Spec2Model ----
(***************************************************************************)
(* Model of sparkpy's lazy-loaded entity (sparkpy/models/base.py,          *)
(* SparkBase) and of its paginated lookup container                        *)
(* (models/container.py, SparkContainer).                                  *)
(*                                                                         *)
(* Python values are modelled as follows.                                  *)
(*   - an identifier string is a record [magic, payload]: magic says       *)
(*     whether the text starts with the marker 'Y2lzY29zcGFyazovL', and    *)
(*     payload is the sequence of segments the rest of the text holds;     *)
(*   - a property value is one of "UNSET" (the object has no such          *)
(*     attribute), "NONE" (Python None), "" (a falsy value) or a truthy    *)
(*     text;                                                               *)
(*   - an exception is the name of its Python class.                       *)
(***************************************************************************)
EXTENDS Integers, Sequences, FiniteSets, TLC

\* ------------------------------------------------------------------ bounds
MaxPages == 3        \* pages the remote collection is served in
MaxPageSize == 3     \* items on one page
MaxIndex == 5        \* largest position asked of the container
MaxRequests == 4     \* requests one container may issue in a run
MaxObjects == 5      \* objects of one parent tree, the session owner included

\* ------------------------------------------------------- identifier codec
Uuids == {"u1", "u2"}

\* the candidate resource paths, in the order _load_from_id probes them
CandidatePaths ==
    <<"messages", "rooms", "people", "memberships", "webhooks",
      "teams", "teams/memberships", "organizations", "licenses">>

Paths == {CandidatePaths[i] : i \in 1..Len(CandidatePaths)}

\* the text 'Y2lzY29zcGFyazovL...' that encodes path and uuid
\* (path and uuid are given as the segments of their text)
uuid_to_api_id(path, uuid) == [magic |-> TRUE, payload |-> path \o uuid]

\* the segments of the text of an identifier string
Text(s) == IF s.magic THEN <<"Y2lzY29zcGFyazovL">> \o s.payload ELSE s.payload

EmptyStr == [magic |-> FALSE, payload |-> <<>>]
JunkStr == [magic |-> FALSE, payload |-> <<"junk">>]
BadApiStr == [magic |-> TRUE, payload |-> <<"junk">>]
UuidStr(u) == [magic |-> FALSE, payload |-> <<u>>]

startswith_magic(s) == s.magic

is_api_id(s) ==
    /\ s.magic
    /\ Len(s.payload) = 2
    /\ s.payload[1] \in Paths
    /\ s.payload[2] \in Uuids

is_uuid(s) ==
    /\ ~s.magic
    /\ Len(s.payload) = 1
    /\ s.payload[1] \in Uuids

\* decode_api_id: [ok, uuid, path, id]; ok = FALSE stands for the failure
decode_api_id(s) ==
    IF is_api_id(s)
    THEN [ok |-> TRUE, uuid |-> s.payload[2], path |-> s.payload[1], id |-> s]
    ELSE [ok |-> FALSE, uuid |-> "NONE", path |-> "NONE", id |-> s]

\* ------------------------------------------------------------------ schema
\* PROPERTIES of the concrete resource type, in dictionary order
PROPERTIES ==
    <<[prop |-> "id",     mutable |-> FALSE, optional |-> FALSE],
      [prop |-> "title",  mutable |-> TRUE,  optional |-> FALSE],
      [prop |-> "type",   mutable |-> FALSE, optional |-> FALSE],
      [prop |-> "teamId", mutable |-> FALSE, optional |-> TRUE]>>

PropNames == {PROPERTIES[i].prop : i \in 1..Len(PROPERTIES)}
Descriptor(name) == CHOOSE d \in {PROPERTIES[i] : i \in 1..Len(PROPERTIES)} : d.prop = name
Required == {n \in PropNames : ~Descriptor(n).optional}
Optional == {n \in PropNames : Descriptor(n).optional}
Mutable == {n \in PropNames : Descriptor(n).mutable}
Immutable == {n \in PropNames : ~Descriptor(n).mutable}

\* names that are not in the schema: a plain attribute a caller may set, and
\* an internal attribute that holds None until the entity is loaded
PlainNames == {"note"}
NonSchemaNames == PlainNames \cup {"_loaded_at"}
\* a name that is not in the schema and is a property without a setter
ReadOnlyNames == {"path"}
\* attributes kept in the instance dictionary under their own name
DictNames == (PropNames \ {"id"}) \cup PlainNames

Truthy(v) == v \notin {"ABSENT", "UNSET", "NONE", ""}


\* ------------------------------------------------------------------ entity
\* the marker for "this key is not in the mapping" where an id is expected
Missing == [magic |-> FALSE, payload |-> <<"<missing>">>]

\* the resource path the concrete type hands to SparkBase.__init__
TypePath == "rooms"

NoEntity ==
    [exists |-> FALSE, _id |-> EmptyStr, _path |-> "NONE", _uuid |-> "NONE",
     _parent |-> FALSE, _loaded |-> FALSE, _loaded_at |-> "NONE",
     attrs |-> [n \in DictNames |-> "UNSET"]]

\* one remote call: the verb, the URL's path and id, the key and value an
\* update is about, and the value of the loaded flag when the call was made
Call(verb, e, key) ==
    [verb |-> verb, path |-> e._path, id |-> e._id, key |-> key, val |-> "",
     loaded |-> e._loaded]

Gets(calls) == Len(SelectSeq(calls, LAMBDA c : c.verb = "GET"))
Updates(calls) == Len(SelectSeq(calls, LAMBDA c : c.verb = "UPDATE"))
Deletes(calls) == Len(SelectSeq(calls, LAMBDA c : c.verb = "DELETE"))

\* object.__setattr__ as _load_data and __setattr__ use it: 'id' goes through
\* the id property's setter, 'path' is a property without a setter, every
\* other name lands in the instance dictionary
setter(e, key, value) ==
    IF key = "id"
    THEN IF is_api_id(value)
         THEN [e |-> [e EXCEPT !._id = value], exc |-> "none"]
         ELSE [e |-> e, exc |-> "ValueError"]
    ELSE IF key = "path"
    THEN [e |-> e, exc |-> "AttributeError"]
    ELSE [e |-> [e EXCEPT !.attrs[key] = value], exc |-> "none"]

\* object.__getattribute__: the value, or "UNSET" for AttributeError
getter(e, name) ==
    IF name \in DictNames THEN e.attrs[name]
    ELSE IF name = "_loaded_at" THEN e._loaded_at
    ELSE IF name = "path" THEN e._path
    ELSE "UNSET"

\* data.get(key) and `key in data` for the mapping handed to _load_data
DataGet(data, key) == IF key = "id" THEN data.id ELSE data.f[key]
DataTruthy(data, key) ==
    IF key = "id" THEN data.id \notin {Missing, EmptyStr} ELSE Truthy(data.f[key])
KeyIn(data, key) ==
    IF key = "id" THEN data.id # Missing ELSE data.f[key] # "ABSENT"

\* `setter(key, value)` inside the loop of _load_data, and the next turn
RECURSIVE LoadLoop(_, _, _)
LoadSet(r, data, i) == IF r.exc # "none" THEN r ELSE LoadLoop(r.e, data, i + 1)

LoadLoop(e, data, i) ==
    IF i > Len(PROPERTIES) THEN [e |-> e, exc |-> "none"]
    ELSE IF DataTruthy(data, PROPERTIES[i].prop)
    THEN LoadSet(setter(e, PROPERTIES[i].prop, DataGet(data, PROPERTIES[i].prop)),
                 data, i)
    ELSE IF PROPERTIES[i].optional
    THEN LoadSet(setter(e, PROPERTIES[i].prop, "NONE"), data, i)
    ELSE [e |-> e, exc |-> "TypeError"]

\* "Check if all required properties are set": the end of _load_data
LoadStamp(r, data) ==
    IF r.exc # "none" THEN r
    ELSE IF \A key \in Required : KeyIn(data, key)
    THEN [e |-> [r.e EXCEPT !._loaded = TRUE, !._loaded_at = "T"], exc |-> "none"]
    ELSE r

_load_data(e, data) == LoadStamp(LoadLoop(e, data, 1), data)

WithCalls(r, calls) == [e |-> r.e, exc |-> r.exc, calls |-> calls]

\* _fetch_data that marks the entity as not loaded when the answer is not
\* a 200
fetch_data_unloading(e, resp) ==
    IF e._parent
    THEN IF resp.status_code = 200
         THEN WithCalls(_load_data(e, resp.body), <<Call("GET", e, "")>>)
         ELSE [e |-> [e EXCEPT !._loaded = FALSE], exc |-> "none",
               calls |-> <<Call("GET", e, "")>>]
    ELSE [e |-> e, exc |-> "Exception", calls |-> <<>>]

_fetch_data(e, resp) ==
    IF e._parent
    THEN IF resp.status_code = 200
         THEN WithCalls(_load_data(e, resp.body), <<Call("GET", e, "")>>)
         ELSE [e |-> e, exc |-> "none", calls |-> <<Call("GET", e, "")>>]
    ELSE [e |-> e, exc |-> "Exception", calls |-> <<>>]

\* what an operation hands back: a returned value or a raised exception
Return(v) == [kind |-> "return", val |-> v, id |-> EmptyStr]
ReturnId(s) == [kind |-> "return", val |-> "id", id |-> s]
Raise(x) == [kind |-> "raise", val |-> x, id |-> EmptyStr]

\* `return getter(name)` after the fetch f, and the except clause
Retry(f, name) ==
    IF f.exc \notin {"none", "AttributeError"}
    THEN [e |-> f.e, result |-> Raise(f.exc), calls |-> f.calls]
    ELSE IF f.exc = "none" /\ name = "id"
    THEN [e |-> f.e, result |-> ReturnId(f.e._id), calls |-> f.calls]
    ELSE IF f.exc = "none" /\ getter(f.e, name) # "UNSET"
    THEN [e |-> f.e, result |-> Return(getter(f.e, name)), calls |-> f.calls]
    ELSE IF Descriptor(name).optional
    THEN [e |-> f.e, result |-> Return("NONE"), calls |-> f.calls]
    ELSE [e |-> f.e, result |-> Raise("TypeError"), calls |-> f.calls]

\* "Fetch and retry the getter": the last try block of __getattribute__
FetchAndRetry(e, name, resp) == Retry(_fetch_data(e, resp), name)

\* __getattribute__ without `if self.loaded and prop.optional: return None`
\* (the older revision): an optional property without a value is fetched
\* on every read
getattribute_fetching_optional(e, name, resp) ==
    IF name = "id"
    THEN [e |-> e, result |-> ReturnId(e._id), calls |-> <<>>]
    ELSE IF getter(e, name) \notin {"UNSET", "NONE"}
    THEN [e |-> e, result |-> Return(getter(e, name)), calls |-> <<>>]
    ELSE IF name \notin PropNames
    THEN [e |-> e, result |-> Raise("AttributeError"), calls |-> <<>>]
    ELSE FetchAndRetry(e, name, resp)

\* __getattribute__ without `if attr is not None: return attr`: a value the
\* object already holds is fetched again
getattribute_refetching(e, name, resp) ==
    IF name \notin PropNames
    THEN [e |-> e, result |-> Raise("AttributeError"), calls |-> <<>>]
    ELSE IF e._loaded /\ Descriptor(name).optional
    THEN [e |-> e, result |-> Return("NONE"), calls |-> <<>>]
    ELSE FetchAndRetry(e, name, resp)

\* __getattribute__ that looks the name up in PROPERTIES only after the
\* fetch: a name outside the schema costs a request
getattribute_fetching_unknown(e, name, resp) ==
    IF name = "id"
    THEN [e |-> e, result |-> ReturnId(e._id), calls |-> <<>>]
    ELSE IF getter(e, name) \notin {"UNSET", "NONE"}
    THEN [e |-> e, result |-> Return(getter(e, name)), calls |-> <<>>]
    ELSE IF name \notin PropNames
    THEN [e |-> e, result |-> Raise("AttributeError"),
          calls |-> IF e._parent THEN <<Call("GET", e, "")>> ELSE <<>>]
    ELSE IF e._loaded /\ Descriptor(name).optional
    THEN [e |-> e, result |-> Return("NONE"), calls |-> <<>>]
    ELSE FetchAndRetry(e, name, resp)

__getattribute__(e, name, resp) ==
    IF name = "id"
    THEN [e |-> e, result |-> ReturnId(e._id), calls |-> <<>>]
    ELSE IF getter(e, name) \notin {"UNSET", "NONE"}
    THEN [e |-> e, result |-> Return(getter(e, name)), calls |-> <<>>]
    ELSE IF name \notin PropNames
    THEN [e |-> e, result |-> Raise("AttributeError"), calls |-> <<>>]
    ELSE IF e._loaded /\ Descriptor(name).optional
    THEN [e |-> e, result |-> Return("NONE"), calls |-> <<>>]
    ELSE FetchAndRetry(e, name, resp)

\* the abstract update(**{key: value}) of the concrete type: one remote
\* mutation call that is accepted or rejected
update(e, key, value, accepted) ==
    [e |-> e, exc |-> IF accepted THEN "none" ELSE "UpdateRejected",
     calls |-> <<[Call("UPDATE", e, key) EXCEPT !.val = value]>>]

\* the result of `setter(key, value)`, the last statement of __setattr__
SetResult(s, calls) ==
    [e |-> s.e,
     result |-> IF s.exc = "none" THEN Return("NONE") ELSE Raise(s.exc),
     calls |-> calls]

\* __setattr__ after self.update(**{key: value}) = u
AfterUpdate(u, key, value, calls) ==
    IF u.exc # "none"
    THEN [e |-> u.e, result |-> Raise(u.exc), calls |-> calls \o u.calls]
    ELSE SetResult(setter(u.e, key, value), calls \o u.calls)

\* __setattr__ of a schema property after the lazy fetch f (if any)
AfterFetch(f, key, value, accepted) ==
    IF f.exc # "none"
    THEN [e |-> f.e, result |-> Raise(f.exc), calls |-> f.calls]
    ELSE IF Descriptor(key).mutable
    THEN AfterUpdate(update(f.e, key, value, accepted), key, value, f.calls)
    ELSE [e |-> f.e, result |-> Raise("AttributeError"), calls |-> f.calls]

\* __setattr__ without `if not self.loaded: self._fetch_data()`: update is
\* called on an entity whose current state was never fetched
setattr_updating_unfetched(e, key, value, resp, accepted) ==
    IF key \in PropNames
    THEN AfterFetch([e |-> e, exc |-> "none", calls |-> <<>>], key, value, accepted)
    ELSE SetResult(setter(e, key, value), <<>>)

__setattr__(e, key, value, resp, accepted) ==
    IF key \in PropNames
    THEN AfterFetch(IF ~e._loaded THEN _fetch_data(e, resp)
                    ELSE [e |-> e, exc |-> "none", calls |-> <<>>],
                    key, value, accepted)
    ELSE SetResult(setter(e, key, value), <<>>)

\* Exception(f'{req_url}: {req_headers}'): the failure of delete, which
\* carries the URL of the request (its path and id)
Rejected(e) == [Raise("Exception") EXCEPT !.id = e._id]

\* delete that takes every 2xx status for success
delete_accepting_2xx(e, status_code) ==
    IF ~e._parent
    THEN [e |-> e, result |-> Raise("AttributeError"), calls |-> <<>>]
    ELSE [e |-> e,
          result |-> IF status_code \notin {200, 204} THEN Rejected(e)
                     ELSE Return("NONE"),
          calls |-> <<Call("DELETE", e, "")>>]

delete(e, status_code) ==
    IF ~e._parent
    THEN [e |-> e, result |-> Raise("AttributeError"), calls |-> <<>>]
    ELSE [e |-> e,
          result |-> IF status_code # 204 THEN Rejected(e) ELSE Return("NONE"),
          calls |-> <<Call("DELETE", e, "")>>]


\* ----------------------------------------------------- server and inputs
Id1 == uuid_to_api_id(<<"rooms">>, <<"u1">>)
Id2 == uuid_to_api_id(<<"rooms">>, <<"u2">>)

\* the strings a caller constructs an entity from
IdStrings == {Id1, BadApiStr, UuidStr("u1"), JunkStr}

BodyVals == {"ABSENT", "a"}
NoBody == [id |-> Missing, f |-> [n \in PropNames \ {"id"} |-> "ABSENT"]]
FullBody(i) == [id |-> i, f |-> [n \in PropNames \ {"id"} |-> "a"]]
\* JSON bodies (and keyword sets): an id and any subset of the other
\* properties; a body without id; one whose id is no opaque id; one whose
\* title is present but empty
Bodies ==
    {[id |-> i, f |-> f] : i \in {Id1, Id2}, f \in [PropNames \ {"id"} -> BodyVals]}
    \cup {FullBody(Missing), FullBody(JunkStr),
          [FullBody(Id1) EXCEPT !.f["title"] = ""]}

NotFound == [status_code |-> 404, body |-> NoBody]
Responses == {[status_code |-> 200, body |-> b] : b \in Bodies} \cup {NotFound}

\* the properties a body supplies with a (truthy) value
Supplied(body) == {n \in PropNames : DataTruthy(body, n)}

\* the bodies that supply every required property and a well-formed id
Complete == {b \in Bodies : Required \subseteq Supplied(b) /\ is_api_id(b.id)}

\* the answers the server may give to the requests of one operation: the
\* answer matters only when the operation issues a GET
Answers(calls) == IF Gets(calls) = 0 THEN {NotFound} ELSE Responses

WriteVals == {"NONE", "b"}

\* the statuses the server may answer a delete with
DeleteStatuses == {200, 204, 404}

\* the answer to a probe of candidate `path` when the server knows the uuid
\* under resource path `known` ("none": under no path)
ProbeResp(known, path, u) ==
    IF path = known
    THEN [status_code |-> 200, body |-> FullBody(uuid_to_api_id(<<path>>, <<u>>))]
    ELSE NotFound

\* ------------------------------------------------------------ construction
\* one turn of `for path in (...)` after self._fetch_data() = f
ProbeFetched(st, f, _id) ==
    IF f.exc # "none"
    THEN [e |-> f.e, exc |-> f.exc, calls |-> st.calls \o f.calls, done |-> TRUE]
    ELSE IF f.e._loaded
    THEN [e |-> [f.e EXCEPT !._uuid = _id.payload[1]], exc |-> "none",
          calls |-> st.calls \o f.calls, done |-> TRUE]
    ELSE [e |-> f.e, exc |-> "none", calls |-> st.calls \o f.calls, done |-> FALSE]

\* one turn of `for path in (...)` after `self.path = path` = s
ProbeSet(st, s, _id, path, known) ==
    IF s.result.kind = "raise"
    THEN [e |-> s.e, exc |-> s.result.val, calls |-> st.calls \o s.calls,
          done |-> TRUE]
    ELSE ProbeFetched(st, _fetch_data(s.e, ProbeResp(known, path, _id.payload[1])),
                      _id)

\* one turn of the loop: st = [e, exc, calls, done], done once the loop was
\* left by `return` or by an exception
ProbeStep(st, _id, path, known) ==
    IF st.done THEN st
    ELSE ProbeSet(st, __setattr__(st.e, "path", path, NotFound, TRUE),
                  _id, path, known)

\* what the for loop leaves, with its else clause
ProbeEnd(end) ==
    IF end.done THEN [e |-> end.e, exc |-> end.exc, calls |-> end.calls]
    ELSE [e |-> end.e, exc |-> "ValueError", calls |-> end.calls]

\* the for loop of _load_from_id
Probe(e, _id, known) ==
    LET after[i \in 0..Len(CandidatePaths)] ==
            IF i = 0 THEN [e |-> e, exc |-> "none", calls |-> <<>>, done |-> FALSE]
            ELSE ProbeStep(after[i - 1], _id, CandidatePaths[i], known)
    IN  ProbeEnd(after[Len(CandidatePaths)])

\* the magic branch of _load_from_id after decode_api_id(_id) = d
Decoded(e, d) ==
    IF ~d.ok
    THEN [e |-> e, exc |-> "MalformedIdentifier", calls |-> <<>>]
    ELSE [e |-> [e EXCEPT !._uuid = d.uuid, !._path = d.path, !._id = d.id],
          exc |-> "none", calls |-> <<>>]

_load_from_id(e, _id, known) ==
    IF startswith_magic(_id)
    THEN Decoded(e, decode_api_id(_id))
    ELSE IF is_uuid(_id)
    THEN Probe(e, _id, known)
    ELSE [e |-> e, exc |-> "none", calls |-> <<>>]

\* the end of __init__: `_id = decode_api_id(self.id)` = d, after r
InitDecode(r, d) ==
    IF r.exc # "none"
    THEN [e |-> NoEntity, result |-> Raise(r.exc), calls |-> r.calls]
    ELSE IF ~d.ok
    THEN [e |-> NoEntity, result |-> Raise("MalformedIdentifier"), calls |-> r.calls]
    ELSE [e |-> [r.e EXCEPT !._uuid = d.uuid, !._path = d.path],
          result |-> ReturnId(r.e._id), calls |-> r.calls]

InitLoaded(r) == InitDecode(r, decode_api_id(r.e._id))

\* the object as the first six statements of __init__ leave it
Blank(parent) ==
    [NoEntity EXCEPT !.exists = TRUE, !._path = TypePath, !._parent = parent]

\* SparkBase.__init__(*args, path=TypePath, parent=parent, **kwargs)
__init__(args, kwargs, parent, known) ==
    InitLoaded(IF args # <<>>
               THEN _load_from_id(Blank(parent), args[1], known)
               ELSE IF kwargs.id # Missing
               THEN WithCalls(_load_data([Blank(parent) EXCEPT !._id = kwargs.id],
                                         kwargs), <<>>)
               ELSE [e |-> Blank(parent), exc |-> "ValueError", calls |-> <<>>])

\* --------------------------------------------------- equality and hashing
\* the right-hand side of a comparison: a string or another entity
Str(s) == [tag |-> "str", s |-> s, e |-> NoEntity]
Obj(e) == [tag |-> "entity", s |-> EmptyStr, e |-> e]

__eq__(self, other) ==
    IF other.tag = "str" /\ is_api_id(other.s)
    THEN self._id = other.s
    ELSE IF other.tag = "str" /\ is_uuid(other.s)
    THEN uuid_to_api_id(Text(self._id), <<self._path>>) = self._id
    ELSE FALSE

__ne__(self, other) ==
    IF other.tag = "str" /\ is_api_id(other.s)
    THEN self._id # other.s
    ELSE IF other.tag = "str" /\ is_uuid(other.s)
    THEN uuid_to_api_id(Text(self._id), <<self._path>>) # self._id
    ELSE TRUE

\* hash(self.id): the hash of a string is a function of its text
__hash__(self) == Text(self._id)


\* ------------------------------------------------------------------- state
VARIABLES
    ent,        \* the entity under study (NoEntity before construction)
    origin,     \* how ent was constructed: "none", "string" or "fields"
    fresh,      \* TRUE from construction until the first read, write or delete
    tainted,    \* TRUE once a write stored None in a required property
    last,       \* the last operation: its inputs, outcome and remote calls
    cache,      \* SparkContainer._items: the raw items cached so far
    finished,   \* SparkContainer._finished
    gen,        \* the generator of _make_generator: where it is suspended
    pages,      \* the remote collection: the items of each page, in order
    requests,   \* the requests the container has issued, in order
    clast,      \* the last container operation and its outcome
    objs,       \* the entities of one parent tree, in order of construction
    nlast       \* the last operation on the parent tree and its outcome

evars == <<ent, origin, fresh, tainted, last>>
cvars == <<cache, finished, gen, pages, requests, clast>>
nvars == <<objs, nlast>>
vars == <<ent, origin, fresh, tainted, last,
          cache, finished, gen, pages, requests, clast, objs, nlast>>

\* what `last` keeps of a response (or of the keywords of a construction)
NoResp == [status_code |-> 0, supplied |-> {}, id |-> Missing]
RespInfo(resp) ==
    [status_code |-> resp.status_code, supplied |-> Supplied(resp.body),
     id |-> resp.body.id]
NoCmp == [tag |-> "none", same_id |-> FALSE, ne |-> FALSE, same_hash |-> FALSE,
          other_loaded |-> FALSE]

NoLast ==
    [op |-> "none", name |-> "", val |-> "", arg |-> Missing, parent |-> FALSE,
     result |-> Return("NONE"), calls |-> <<>>, pre_loaded |-> FALSE,
     pre_val |-> "UNSET", first |-> FALSE, changed |-> FALSE, resp |-> NoResp,
     cmp |-> NoCmp]

EntityInit ==
    /\ ent = NoEntity
    /\ origin = "none"
    /\ fresh = FALSE
    /\ tainted = FALSE
    /\ last = NoLast

\* ---------------------------------------------------------- entity actions
\* Entity(id_string, parent=...) and Entity(id=..., title=..., parent=...)
Construct ==
    /\ ~ent.exists
    /\ \E parent \in BOOLEAN, known \in Paths \cup {"none"},
          args \in {<<>>} \cup {<<s>> : s \in IdStrings},
          kwargs \in Bodies \cup {NoBody} :
       \E r \in {__init__(args, kwargs, parent, known)} :
             /\ args # <<>> => kwargs = NoBody
             /\ (args = <<>> \/ ~is_uuid(args[1])) => known = "none"
             /\ ent' = r.e
             /\ origin' = IF ~r.e.exists THEN "none"
                          ELSE IF args # <<>> THEN "string" ELSE "fields"
             /\ fresh' = r.e.exists
             /\ tainted' = FALSE
             /\ last' = [NoLast EXCEPT
                           !.op = "construct",
                           !.arg = IF args # <<>> THEN args[1] ELSE Missing,
                           !.name = IF args # <<>> THEN "args" ELSE "kwargs",
                           !.val = known,
                           !.parent = parent,
                           !.result = r.result,
                           !.calls = r.calls,
                           !.changed = r.e.exists,
                           !.resp = IF args # <<>> THEN NoResp
                                    ELSE [status_code |-> 0,
                                          supplied |-> Supplied(kwargs),
                                          id |-> kwargs.id]]
    /\ UNCHANGED cvars
    /\ UNCHANGED nvars

\* value = entity.name
Read ==
    /\ ent.exists
    /\ \E name \in PropNames \cup NonSchemaNames :
       \E resp \in Answers(__getattribute__(ent, name, NotFound).calls) :
       \E r \in {__getattribute__(ent, name, resp)} :
             /\ ent' = r.e
             /\ last' = [NoLast EXCEPT
                           !.op = "read", !.name = name,
                           !.parent = ent._parent,
                           !.result = r.result, !.calls = r.calls,
                           !.pre_loaded = ent._loaded,
                           !.first = fresh,
                           !.pre_val = IF name = "id" THEN "id" ELSE getter(ent, name),
                           !.changed = (r.e # ent),
                           !.resp = IF r.calls = <<>> THEN NoResp ELSE RespInfo(resp)]
    /\ fresh' = FALSE
    /\ UNCHANGED <<origin, tainted>>
    /\ UNCHANGED cvars
    /\ UNCHANGED nvars

\* entity.key = value
Write ==
    /\ ent.exists
    /\ \E key \in PropNames \cup PlainNames \cup ReadOnlyNames, value \in WriteVals,
          accepted \in BOOLEAN :
       \E resp \in Answers(__setattr__(ent, key, value, NotFound, accepted).calls) :
       \E r \in {__setattr__(ent, key, value, resp, accepted)} :
             /\ (Updates(r.calls) = 0 => accepted)
             /\ (key \notin Mutable => value = "b")
             /\ ent' = r.e
             /\ tainted' = (tainted \/ (key \in Required /\ key # "id"
                                        /\ r.e.attrs[key] = "NONE"))
             /\ last' = [NoLast EXCEPT
                           !.op = "write", !.name = key, !.val = value,
                           !.parent = ent._parent,
                           !.result = r.result, !.calls = r.calls,
                           !.pre_loaded = ent._loaded,
                           !.first = fresh,
                           !.pre_val = IF key = "id" THEN "id" ELSE getter(ent, key),
                           !.changed = (r.e # ent),
                           !.resp = IF Gets(r.calls) = 0 THEN NoResp ELSE RespInfo(resp)]
    /\ fresh' = FALSE
    /\ UNCHANGED origin
    /\ UNCHANGED cvars
    /\ UNCHANGED nvars

\* entity.delete()
Delete ==
    /\ ent.exists
    /\ \E status_code \in DeleteStatuses :
       \E r \in {delete(ent, status_code)} :
             /\ ent' = r.e
             /\ last' = [NoLast EXCEPT
                           !.op = "delete", !.parent = ent._parent,
                           !.result = r.result, !.calls = r.calls,
                           !.pre_loaded = ent._loaded,
                           !.changed = (r.e # ent),
                           !.resp = IF r.calls = <<>> THEN NoResp
                                    ELSE [NoResp EXCEPT !.status_code = status_code]]
    /\ fresh' = FALSE
    /\ UNCHANGED <<origin, tainted>>
    /\ UNCHANGED cvars
    /\ UNCHANGED nvars

\* entity == other, entity != other, hash(entity) == hash(other), where other
\* is a string or an entity constructed for the comparison
Compare ==
    /\ ent.exists
    /\ \E args \in {<<>>} \cup {<<s>> : s \in IdStrings},
          kwargs \in {NoBody} \cup Complete, asString \in BOOLEAN :
       \E p \in {__init__(args, kwargs, FALSE, "none")} :
       \E other \in {IF asString /\ args # <<>> THEN Str(args[1]) ELSE Obj(p.e)} :
             /\ args # <<>> => kwargs = NoBody
             /\ asString => args # <<>>
             /\ ~asString => p.e.exists
             /\ last' = [NoLast EXCEPT
                           !.op = "compare",
                           !.arg = IF asString THEN args[1] ELSE p.e._id,
                           !.parent = ent._parent,
                           !.pre_loaded = ent._loaded,
                           !.result = Return(IF __eq__(ent, other) THEN "True"
                                             ELSE "False"),
                           !.cmp = [tag |-> other.tag,
                                    same_id |-> (~asString /\ p.e._id = ent._id),
                                    ne |-> __ne__(ent, other),
                                    same_hash |-> (~asString
                                        /\ __hash__(ent) = __hash__(p.e)),
                                    other_loaded |-> (~asString /\ p.e._loaded)]]
    /\ UNCHANGED <<ent, origin, fresh, tainted>>
    /\ UNCHANGED cvars
    /\ UNCHANGED nvars


\* --------------------------------------------------------------- container
\* The remote collection holds the items 1, 2, ..., Total in this order and
\* serves them in Len(pages) pages; every page but the last carries a "next"
\* link.  Item n is the raw record (a dict) whose 'id' is the id numbered n.
RECURSIVE Flatten(_)
Flatten(ps) == IF ps = <<>> THEN <<>> ELSE Head(ps) \o Flatten(Tail(ps))

RECURSIVE Paginate(_, _)
\* the pages of the given sizes, filled with consecutive items from `first`
Paginate(sizes, first) ==
    IF sizes = <<>> THEN <<>>
    ELSE <<[k \in 1..Head(sizes) |-> first + k - 1]>>
         \o Paginate(Tail(sizes), first + Head(sizes))

\* only the last page may be empty
PageConfigs ==
    {Paginate(sizes, 1) :
        sizes \in {z \in UNION {[1..n -> 0..MaxPageSize] : n \in 1..MaxPages} :
                      \A i \in 1..(Len(z) - 1) : z[i] > 0}}

Remote == Flatten(pages)
Total == Len(Remote)
HasNext(k) == k < Len(pages)

PageRequest(k) == [kind |-> "page", n |-> k]
ItemRequest(key) == [kind |-> "item", n |-> key]
PageRequests(reqs) == Len(SelectSeq(reqs, LAMBDA r : r.kind = "page"))
ItemRequests(reqs) == Len(SelectSeq(reqs, LAMBDA r : r.kind = "item"))

\* the container object: c = [cache, finished, gen, requests]
NewGen == [state |-> "unstarted", items |-> <<>>, page |-> 0]
NewContainer ==
    [cache |-> <<>>, finished |-> FALSE, gen |-> NewGen, requests |-> <<>>]

\* `while items:` of _make_generator, entered at the top: yield the next
\* buffered item, or fall off the end of the generator
\* the loop with `self._items.appendleft(item)`: the newest item goes first
LoopTop_prepending(c) ==
    IF c.gen.items = <<>>
    THEN [c |-> [c EXCEPT !.gen.state = "done"], stop |-> TRUE]
    ELSE [c |-> [c EXCEPT !.cache = <<Head(c.gen.items)>> \o c.cache,
                          !.gen.items = Tail(c.gen.items),
                          !.gen.state = "suspended"],
          stop |-> FALSE]

LoopTop(c) ==
    IF c.gen.items = <<>>
    THEN [c |-> [c EXCEPT !.gen.state = "done"], stop |-> TRUE]
    ELSE [c |-> [c EXCEPT !.cache = Append(c.cache, Head(c.gen.items)),
                          !.gen.items = Tail(c.gen.items),
                          !.gen.state = "suspended"],
          stop |-> FALSE]

\* a container that makes a new generator when the old one is exhausted: the
\* first page is requested again
make_generator_restarting(c) ==
    IF c.gen.state \in {"done", "unstarted"}
    THEN LoopTop([c EXCEPT !.requests = Append(c.requests, PageRequest(1)),
                           !.gen.items = pages[1],
                           !.gen.page = 1])
    ELSE IF c.gen.items = <<>>
         THEN IF HasNext(c.gen.page)
              THEN [c |-> [c EXCEPT
                             !.requests = Append(c.requests,
                                                 PageRequest(c.gen.page + 1)),
                             !.gen.items = pages[c.gen.page + 1],
                             !.gen.page = c.gen.page + 1,
                             !.gen.state = "done"],
                    stop |-> TRUE]
              ELSE [c |-> [c EXCEPT !.finished = TRUE, !.gen.state = "done"],
                    stop |-> TRUE]
         ELSE LoopTop(c)

\* self._generator.__next__(): stop = TRUE stands for StopIteration
_make_generator(c) ==
    IF c.gen.state = "done" THEN [c |-> c, stop |-> TRUE]
    ELSE IF c.gen.state = "unstarted"
    THEN LoopTop([c EXCEPT !.requests = Append(c.requests, PageRequest(1)),
                           !.gen.items = pages[1],
                           !.gen.page = 1])
    ELSE \* resumed after `yield item`
         IF c.gen.items = <<>>
         THEN IF HasNext(c.gen.page)
              THEN [c |-> [c EXCEPT
                             !.requests = Append(c.requests,
                                                 PageRequest(c.gen.page + 1)),
                             !.gen.items = pages[c.gen.page + 1],
                             !.gen.page = c.gen.page + 1,
                             !.gen.state = "done"],
                    stop |-> TRUE]
              ELSE [c |-> [c EXCEPT !.finished = TRUE, !.gen.state = "done"],
                    stop |-> TRUE]
         ELSE LoopTop(c)

CReturn(item) == [kind |-> "return", val |-> "entity", item |-> item]
CRaise(x) == [kind |-> "raise", val |-> x, item |-> 0]

\* self.cls(**self._items[key]) for an int key
ItemAt(c, key) ==
    IF key < Len(c.cache) THEN CReturn(c.cache[key + 1]) ELSE CRaise("IndexError")

RECURSIVE IndexLoop(_, _)
\* the `while len(self._items) <= key and not self._finished` loop
IndexLoop(c, key) ==
    IF Len(c.cache) <= key /\ ~c.finished
    THEN LET g == _make_generator(c)
         IN  IF g.stop
             THEN IF Len(g.c.cache) < key
                  THEN [c |-> g.c, result |-> CRaise("IndexError")]
                  ELSE [c |-> g.c, result |-> ItemAt(g.c, key)]
             ELSE IndexLoop(g.c, key)
    ELSE [c |-> c, result |-> ItemAt(c, key)]

\* `item.id` on a cached raw record: the records are dicts, which have no
\* attribute 'id'
item_id(item) == [exc |-> "AttributeError", id |-> 0]

\* [item for item in self._items if item.id == key]
Matching(c, key) ==
    IF \E i \in 1..Len(c.cache) : item_id(c.cache[i]).exc # "none"
    THEN [exc |-> "AttributeError", items |-> <<>>]
    ELSE [exc |-> "none",
          items |-> SelectSeq(c.cache, LAMBDA item : item_id(item).id = key)]

\* SparkContainer.__getitem__(key); key = [kind, n]: an int, the opaque id
\* numbered n, or anything else
__getitem__(c, key) ==
    IF key.kind = "int"
    THEN IndexLoop(c, key.n)
    ELSE IF key.kind = "id"
    THEN LET m == Matching(c, key.n)
         IN  IF m.exc # "none"
             THEN [c |-> c, result |-> CRaise(m.exc)]
             ELSE IF m.items # <<>>
             THEN [c |-> c, result |-> CReturn(m.items[1])]
             ELSE [c |-> [c EXCEPT !.requests =
                                     Append(c.requests, ItemRequest(key.n))],
                   result |-> CReturn(key.n)]
    ELSE [c |-> c, result |-> CRaise("TypeError")]

NoCLast ==
    [op |-> "none", n |-> 0, result |-> CRaise("none"), pre_len |-> 0,
     pre_requests |-> <<>>, changed |-> FALSE]

ContainerIdle ==
    /\ cache = <<>>
    /\ finished = FALSE
    /\ gen = NewGen
    /\ pages = <<<<>>>>
    /\ requests = <<>>
    /\ clast = NoCLast

ContainerInit ==
    /\ cache = <<>>
    /\ finished = FALSE
    /\ gen = NewGen
    /\ pages \in PageConfigs
    /\ requests = <<>>
    /\ clast = NoCLast

Keys ==
    {[kind |-> "int", n |-> i] : i \in 0..MaxIndex}
    \cup {[kind |-> "id", n |-> i] : i \in {1, 2, Total + 1} \cap 1..(Total + 1)}
    \cup {[kind |-> "other", n |-> 0]}

\* the outcome of container[key] in the current state
Access(key) ==
    LET c == [cache |-> cache, finished |-> finished, gen |-> gen,
              requests |-> requests]
        r == __getitem__(c, key)
    IN  [c |-> r.c,
         clast |-> [op |-> key.kind, n |-> key.n, result |-> r.result,
                    pre_len |-> Len(cache), pre_requests |-> requests,
                    changed |-> (<<r.c.cache, r.c.finished, r.c.gen>>
                                 # <<cache, finished, gen>>)]]

\* container[k] for an int k
AtIndex ==
    /\ Len(requests) < MaxRequests
    /\ \E key \in {k \in Keys : k.kind = "int"} :
         /\ cache' = Access(key).c.cache
         /\ finished' = Access(key).c.finished
         /\ gen' = Access(key).c.gen
         /\ requests' = Access(key).c.requests
         /\ clast' = Access(key).clast
    /\ UNCHANGED pages
    /\ UNCHANGED evars
    /\ UNCHANGED nvars

\* container[id] for an opaque id
AtKey ==
    /\ Len(requests) < MaxRequests
    /\ \E key \in {k \in Keys : k.kind = "id"} :
         /\ cache' = Access(key).c.cache
         /\ finished' = Access(key).c.finished
         /\ gen' = Access(key).c.gen
         /\ requests' = Access(key).c.requests
         /\ clast' = Access(key).clast
    /\ UNCHANGED pages
    /\ UNCHANGED evars
    /\ UNCHANGED nvars

\* container[key] for any other key
AtOther ==
    /\ Len(requests) < MaxRequests
    /\ \E key \in {k \in Keys : k.kind = "other"} :
         /\ cache' = Access(key).c.cache
         /\ finished' = Access(key).c.finished
         /\ gen' = Access(key).c.gen
         /\ requests' = Access(key).c.requests
         /\ clast' = Access(key).clast
    /\ UNCHANGED pages
    /\ UNCHANGED evars
    /\ UNCHANGED nvars

\* ------------------------------------------------------------- parent tree
\* The objects of one application, in order of construction.  objs[1] is the
\* session owner, whose parent is None; every other object is an entity.
\* `parent` is the index of the object handed in as parent=..., 0 for a
\* parent that is None or False; `builder` is the index of the entity whose
\* load procedure constructed the object, 0 when the application did.
SessionOwner == [kind |-> "owner", parent |-> 0, builder |-> 0, e |-> NoEntity]

RECURSIVE Climb(_, _)
\* `while getattr(parent, 'parent', None): parent = parent.parent`
Climb(os, p) ==
    IF p = 0 THEN p
    ELSE IF os[p].parent = 0 THEN p
    ELSE Climb(os, os[p].parent)

\* SparkBase._get_parent: "Get to the root parent"
_get_parent(os, self) == Climb(os, os[self].parent)

\* the values a response gives a list property: lists of identifier strings
ListValues == {<<Id1>>, <<Id1, Id2>>, <<Id1, JunkStr>>}

\* properties.item_class(item, parent=p) = r, built by the entity `self`
Nested(r, p, self) ==
    [new |-> IF r.result.kind = "raise" THEN <<>>
             ELSE <<[kind |-> "entity", parent |-> p, builder |-> self, e |-> r.e]>>,
     exc |-> IF r.result.kind = "raise" THEN r.result.val ELSE "none"]

RECURSIVE Comprehension(_, _, _)
\* the rest of the list comprehension after its first item gave `first`
Rest(first, value, p, self) ==
    IF first.exc # "none" THEN first
    ELSE [new |-> first.new \o Comprehension(Tail(value), p, self).new,
          exc |-> Comprehension(Tail(value), p, self).exc]

\* [properties.item_class(item, parent=p) for item in value]
Comprehension(value, p, self) ==
    IF value = <<>> THEN [new |-> <<>>, exc |-> "none"]
    ELSE Rest(Nested(__init__(<<Head(value)>>, NoBody, p # 0, "none"), p, self),
              value, p, self)

\* the branch of _load_data for a truthy value of one property: with an
\* item_class and a list the value becomes a list of nested entities
LoadValue(os, self, value, item_class) ==
    IF item_class
    THEN Comprehension(value, _get_parent(os, self), self)
    ELSE [new |-> <<>>, exc |-> "none"]

NoNLast == [op |-> "none", self |-> 0, parent |-> 0, exc |-> "none", built |-> 0]

NestedInit ==
    /\ objs = <<SessionOwner>>
    /\ nlast = NoNLast

\* the application constructs an entity: Entity(id, parent=objs[p]), or
\* Entity(id) for p = 0
NewEntity ==
    /\ Len(objs) < MaxObjects
    /\ \E p \in 0..Len(objs), s \in {Id1, Id2} :
       \E r \in {Nested(__init__(<<s>>, NoBody, p # 0, "none"), p, 0)} :
           /\ objs' = objs \o r.new
           /\ nlast' = [op |-> "new", self |-> Len(objs) + 1, parent |-> p,
                        exc |-> r.exc, built |-> Len(r.new)]
    /\ UNCHANGED evars
    /\ UNCHANGED cvars

\* the load procedure of the entity objs[self] meets a property whose value
\* is a list
LoadList ==
    /\ \E self \in 2..Len(objs), value \in ListValues, item_class \in BOOLEAN :
       \E r \in {LoadValue(objs, self, value, item_class)} :
           /\ Len(objs) + Len(value) <= MaxObjects
           /\ objs' = IF r.exc = "none" THEN objs \o r.new ELSE objs
           /\ nlast' = [op |-> IF item_class THEN "load" ELSE "plain",
                        self |-> self,
                        parent |-> _get_parent(objs, self),
                        exc |-> r.exc,
                        built |-> IF r.exc = "none" THEN Len(r.new) ELSE 0]
    /\ UNCHANGED evars
    /\ UNCHANGED cvars

\* ---------------------------------------------------------- specifications
Init == EntityInit /\ ContainerIdle /\ NestedInit

Next == Construct \/ Read \/ Write \/ Delete \/ Compare

Spec == Init /\ [][Next]_vars

InitContainer == EntityInit /\ ContainerInit /\ NestedInit

NextContainer == AtIndex \/ AtKey \/ AtOther

SpecContainer == InitContainer /\ [][NextContainer]_vars

InitNested == EntityInit /\ ContainerIdle /\ NestedInit

NextNested == NewEntity \/ LoadList

SpecNested == InitNested /\ [][NextNested]_vars


\* ------------------------------------------------- names of the failures
UnknownAttribute == "AttributeError"
ImmutableProperty == "AttributeError"
MissingRequiredProperty == "TypeError"
UnresolvableIdentifier == "ValueError"
InvalidIdentifier == "ValueError"
IndexOutOfRange == "IndexError"
DeleteRejected == "Exception"

\* ------------------------------------------------------------------ claims
FromOpaqueId == origin = "string"
LazyRead(names) == FromOpaqueId /\ last.op = "read" /\ last.name \in names

\* C1 as stated: construction from an opaque id issues no fetch, the first
\* read of ANY required property issues exactly one fetch, and a read of a
\* required property of a loaded entity issues none.
C1_AnyRequiredFieldFetches ==
    /\ (last.op = "construct" /\ last.name = "args" /\ is_api_id(last.arg))
          => last.calls = <<>>
    /\ (LazyRead(Required) /\ last.first /\ last.parent)
          => Gets(last.calls) = 1
    /\ (LazyRead(Required) /\ last.pre_loaded /\ ~tainted)
          => Gets(last.calls) = 0

\* C1 (amended): construction from an opaque id issues no fetch; the first
\* read of a required property other than id (which construction already
\* set) issues exactly one fetch, and when that fetch is answered 200 with
\* every required property the read returns the value and the entity is
\* loaded; a read of any required property of a loaded entity, none of whose
\* required properties was overwritten with None, issues no fetch.
C1_LazyFetchOnce ==
    /\ (last.op = "construct" /\ last.name = "args" /\ is_api_id(last.arg))
          => (last.calls = <<>> /\ ent.exists /\ ~ent._loaded)
    /\ (LazyRead(Required \ {"id"}) /\ last.first /\ last.parent)
          => /\ Gets(last.calls) = 1
             /\ Len(last.calls) = 1
             /\ (last.resp.status_code = 200 /\ Required \subseteq last.resp.supplied
                 /\ is_api_id(last.resp.id))
                   => (last.result = Return("a") /\ ent._loaded)
    /\ (LazyRead({"id"}) /\ last.first) => last.calls = <<>>
    /\ (LazyRead(Required) /\ last.pre_loaded /\ ~tainted)
          => (last.calls = <<>> /\ last.result.kind = "return")

\* a later read of a required property of the entity a first read loaded
C1_Witness ==
    /\ LazyRead(Required \ {"id"})
    /\ ~last.first /\ last.pre_loaded /\ ~tainted /\ last.parent
    /\ last.calls = <<>>
    /\ last.result = Return("a")

\* C2 as stated: a write of an immutable schema property fails with
\* ImmutableProperty and issues no remote call, loaded or not.
C2_ImmutableWriteIsLocal ==
    (last.op = "write" /\ last.name \in Immutable /\ last.parent)
        => (last.result = Raise(ImmutableProperty) /\ last.calls = <<>>)

\* the load procedure ran in the last operation, on this mapping
LoadRan ==
    \/ last.op = "construct" /\ last.name = "kwargs" /\ last.resp.id # Missing
    \/ last.op \in {"read", "write"} /\ Gets(last.calls) = 1
       /\ last.resp.status_code = 200
SomeRequired(supplied) ==
    /\ Required \cap supplied # {}
    /\ ~(Required \subseteq supplied)

\* C6 as stated: a load-procedure run on data holding only some of the
\* required properties does not fail, sets the properties it was given and
\* leaves loaded false; a later read of a still-missing required property
\* issues exactly one fetch and returns the value or fails with
\* MissingRequiredProperty.
C6_PartialLoadTolerated ==
    /\ (LoadRan /\ SomeRequired(last.resp.supplied) /\ ~last.pre_loaded)
          => /\ last.op = "construct" => ent.exists
             /\ last.result # Raise("TypeError") \/ last.op = "read"
             /\ ent.exists =>
                  /\ ~ent._loaded
                  /\ \A n \in last.resp.supplied \ {"id"} : Truthy(ent.attrs[n])
    /\ (last.op = "read" /\ last.name \in Required \ {"id"} /\ ~last.pre_loaded
        /\ ~Truthy(last.pre_val) /\ last.parent)
          => /\ Gets(last.calls) = 1
             /\ \/ last.result.kind = "return"
                \/ last.result = Raise(MissingRequiredProperty)

\* C7 as stated: two entities with the same opaque id are equal, not unequal,
\* and hash alike, whatever their load states; with different ids they are
\* unequal.
C7_EntitiesEqualById ==
    (last.op = "compare" /\ last.cmp.tag = "entity")
        => IF last.cmp.same_id
           THEN /\ last.result = Return("True")
                /\ ~last.cmp.ne
                /\ last.cmp.same_hash
           ELSE last.result = Return("False") /\ last.cmp.ne

\* the candidate paths up to and including `known` (all of them for "none")
RECURSIVE Probed(_, _)
Probed(known, i) ==
    IF i > Len(CandidatePaths) THEN <<>>
    ELSE IF CandidatePaths[i] = known THEN <<known>>
    ELSE <<CandidatePaths[i]>> \o Probed(known, i + 1)

\* C8 as stated: construction from a bare uuid fetches the candidate paths in
\* their fixed order, one fetch each, stops at the first that loads the
\* entity and fixes resource_path and uuid to it; when no candidate answers,
\* it fails with UnresolvableIdentifier and returns no entity.
C8_UuidProbing ==
    (last.op = "construct" /\ last.name = "args" /\ is_uuid(last.arg) /\ last.parent)
        => /\ Len(last.calls) = Len(Probed(last.val, 1))
           /\ \A i \in 1..Len(last.calls) :
                 /\ last.calls[i].verb = "GET"
                 /\ last.calls[i].path = Probed(last.val, 1)[i]
           /\ IF last.val = "none"
              THEN last.result = Raise(UnresolvableIdentifier) /\ ~ent.exists
              ELSE /\ last.result.kind = "return"
                   /\ ent.exists /\ ent._loaded
                   /\ ent._path = last.val
                   /\ ent._uuid = last.arg.payload[1]

\* C9: a read of a name that is not in the schema and has no value on the
\* object fails with UnknownAttribute, issues no fetch and leaves the entity
\* as it was.
C9_UnknownAttribute ==
    (last.op = "read" /\ last.name \notin PropNames /\ ~Truthy(last.pre_val))
        => /\ last.result = Raise(UnknownAttribute)
           /\ last.calls = <<>>
           /\ ~last.changed

\* such a read on an entity that could have fetched: unloaded, with a parent
C9_Witness ==
    /\ last.op = "read" /\ last.name \in NonSchemaNames
    /\ ~Truthy(last.pre_val)
    /\ last.parent /\ ~last.pre_loaded
    /\ last.result = Raise(UnknownAttribute)

\* C10 as stated: construction from a string that is neither an opaque id
\* nor a uuid fails with InvalidIdentifier, issues no fetch and returns no
\* entity.
C10_InvalidIdentifier ==
    (last.op = "construct" /\ last.name = "args"
     /\ ~startswith_magic(last.arg) /\ ~is_uuid(last.arg))
        => /\ last.result = Raise(InvalidIdentifier)
           /\ last.calls = <<>>
           /\ ~ent.exists


\* the opaque id a uuid string stands for on an entity of the given path
Reconstructed(e, s) == uuid_to_api_id(<<e._path>>, s.payload)

\* C11 as stated: an entity equals an opaque-id string exactly when the
\* string is its id, and equals a uuid string exactly when the uuid, joined
\* with the entity's own resource path, gives back its id.
C11_EqualsString ==
    (last.op = "compare" /\ last.cmp.tag = "str")
        => /\ is_api_id(last.arg)
                => ((last.result = Return("True")) <=> (last.arg = ent._id))
           /\ is_uuid(last.arg)
                => ((last.result = Return("True"))
                        <=> (Reconstructed(ent, last.arg) = ent._id))

\* the remote calls of the last write, by kind
WriteOf(names) == last.op = "write" /\ last.name \in names /\ last.parent
TheFetch == Len(last.calls) >= 1 /\ last.calls[1].verb = "GET"
TheUpdate(i) ==
    /\ Len(last.calls) = i
    /\ last.calls[i].verb = "UPDATE"
    /\ last.calls[i].key = last.name
    /\ last.calls[i].val = last.val
\* the lazy fetch of the last write failed in the load procedure
FetchFailed == last.result \in {Raise("TypeError"), Raise("ValueError")}

\* a write of a mutable schema property: on an entity that is not loaded one
\* fetch comes first and update is called after it (unless the fetch itself
\* failed); on a loaded entity update is called once, without a fetch
MutableWriteOrder ==
    /\ (WriteOf(Mutable) /\ ~last.pre_loaded)
          => /\ TheFetch /\ Gets(last.calls) = 1
             /\ IF FetchFailed THEN Len(last.calls) = 1 ELSE TheUpdate(2)
    /\ (WriteOf(Mutable) /\ last.pre_loaded) => TheUpdate(1)

C14_IdFixed ==
    [][(ent.exists /\ ent'.exists)
          => (ent'._id = ent._id /\ __hash__(ent') = __hash__(ent))]_vars

\* the entity holds a value for the schema property
HasValue(e, n) == IF n = "id" THEN e._id # EmptyStr ELSE Truthy(e.attrs[n])

\* C18 as stated: in every state of an entity loaded is true exactly when
\* every required schema property has a value, and loaded_at is set exactly
\* when loaded is true.
C18_LoadedIffComplete ==
    ent.exists
        => /\ ent._loaded <=> (\A n \in Required : HasValue(ent, n))
           /\ (ent._loaded_at # "NONE") <=> ent._loaded

C22_UpdateOnlyWhenLoaded ==
    last.op = "write"
        => \A i \in 1..Len(last.calls) :
              last.calls[i].verb = "UPDATE" => last.calls[i].loaded

\* ------------------------------------------------------- container claims
Max(a, b) == IF a >= b THEN a ELSE b

\* the number of pages that hold the items up to position k (k < Total)
PagesNeeded(k) ==
    CHOOSE j \in 1..Len(pages) :
        /\ Len(Flatten(SubSeq(pages, 1, j))) > k
        /\ \A i \in 1..(j - 1) : Len(Flatten(SubSeq(pages, 1, i))) <= k

\* the cache as it was before the last container operation
PreCache == SubSeq(cache, 1, clast.pre_len)
InPreCache(n) == \E i \in 1..Len(PreCache) : PreCache[i] = n

\* C3 as stated: at(k) with k < Total returns the entity of the k-th remote
\* item and the page requests so far are exactly the pages needed to cover
\* the largest position asked; at(k) with k >= Total fails with
\* IndexOutOfRange after the page without "next" link was received.
C3_PositionalAccess ==
    clast.op = "int" =>
        IF clast.n < Total
        THEN /\ clast.result = CReturn(Remote[clast.n + 1])
             /\ PageRequests(requests)
                  = Max(PageRequests(clast.pre_requests), PagesNeeded(clast.n))
        ELSE /\ clast.result = CRaise(IndexOutOfRange)
             /\ \E i \in 1..Len(requests) : requests[i] = PageRequest(Len(pages))

\* C4 as stated: key access with an id that is in the cache succeeds with
\* the entity of the cached item, issues no request and changes nothing.
C4_KeyHit ==
    (clast.op = "id" /\ InPreCache(clast.n))
        => /\ clast.result = CReturn(clast.n)
           /\ requests = clast.pre_requests
           /\ ~clast.changed

\* C5 as stated: key access with an id that is not in the cache issues
\* exactly one request, the direct fetch of that id, returns the entity built
\* from the answer and leaves cache, cursor and finished as they were.
C5_KeyMiss ==
    (clast.op = "id" /\ ~InPreCache(clast.n))
        => /\ requests = Append(clast.pre_requests, ItemRequest(clast.n))
           /\ clast.result = CReturn(clast.n)
           /\ ~clast.changed

\* a is an initial part of b
IsPrefix(a, b) == Len(a) <= Len(b) /\ a = SubSeq(b, 1, Len(a))

\* C15: the cache is always an initial part of the remote sequence of items,
\* in the remote order, and equals the whole sequence whenever finished is
\* true.
C15_CacheIsPrefix ==
    /\ IsPrefix(cache, Remote)
    /\ finished => cache = Remote

\* a collection of several items, consumed to the end
C15_Witness ==
    /\ finished
    /\ Len(cache) >= 2
    /\ cache = Remote

\* the page without "next" link has been requested (and so received)
ReceivedLast == \E i \in 1..Len(requests) : requests[i] = PageRequest(Len(pages))

\* C16 as stated: once the page without "next" link was received finished is
\* set, also when that page is an empty first page: a positional access past
\* the end of a collection whose last page was received leaves finished true.
C16_FinishedAfterLastPage ==
    (clast.op = "int" /\ clast.n >= Total /\ ReceivedLast) => finished

\* no page is requested twice
NoPageTwice(reqs) ==
    \A i, j \in 1..Len(reqs) :
        (reqs[i].kind = "page" /\ reqs[i] = reqs[j]) => i = j

\* C17: the container only moves forward: every step leaves the old cache as
\* an initial part of the new one, never resets finished and never requests
\* a page a second time; a positional access to an index the cache already
\* covers issues no request and leaves cache, cursor and finished unchanged.
C17_ForwardOnly ==
    [][/\ IsPrefix(cache, cache')
       /\ finished => finished'
       /\ NoPageTwice(requests')
       /\ (clast'.op = "int" /\ clast'.n < Len(cache))
             => /\ requests' = requests
                /\ cache' = cache /\ gen' = gen /\ finished' = finished
                /\ clast'.result = CReturn(cache[clast'.n + 1])]_vars

\* a positional access to an index that an earlier access had cached
C17_Witness ==
    /\ clast.op = "int" /\ clast.n < clast.pre_len
    /\ clast.n >= 1
    /\ requests = clast.pre_requests /\ requests # <<>>
    /\ ~clast.changed
    /\ clast.result = CReturn(Remote[clast.n + 1])

\* ----------------------------------------------------- parent tree claims
\* C19 as stated: every nested entity the load procedure constructs has the
\* entity being loaded as its parent, not the root of that entity's parent
\* chain (checked for loading entities that have a parent themselves).
C19_NestedParentIsSelf ==
    \A i \in 1..Len(objs) :
        (objs[i].builder # 0 /\ objs[objs[i].builder].parent # 0)
            => objs[i].parent = objs[i].builder

====
